---- MODULE Spec2Model ----
(***************************************************************************)
(* Model of the basexservice semantic-action gateway                       *)
(* (cmd/basexservice/semantic_api.go).  One inbound request is read,       *)
(* parsed, dispatched to a handler and answered; the handler may call the  *)
(* downstream XML database and the object-store gateway.  Strings the code *)
(* inspects character by character (paths, URLs, identifiers) are          *)
(* sequences of one-character strings.                                     *)
(***************************************************************************)
EXTENDS Integers, Sequences, FiniteSets, TLC

VARIABLES pc, request, response, dispatched, handler, calls, files, databases,
          environ, startEnviron, apiKey, phase, server, events, uploads, endpoint

\* the process: its environment (and the environment it was started with),
\* the API key main() captured, the position of main(), the HTTP server and
\* the lifecycle events so far
procVars == <<environ, startEnviron, apiKey, phase, server, events>>

vars == <<pc, request, response, dispatched, handler, calls, files, databases,
          environ, startEnviron, apiKey, phase, server, events, uploads, endpoint>>

----------------------------------------------------------------------------
(* String helpers of the Go standard library, on character sequences.      *)

EmptyStr == <<>>

HasPrefix(s, p) == Len(s) >= Len(p) /\ SubSeq(s, 1, Len(p)) = p

TrimPrefix(s, p) == IF HasPrefix(s, p) THEN SubSeq(s, Len(p) + 1, Len(s)) ELSE s

SlashPositions(s) == {i \in 1..Len(s) : s[i] = "/"}

MinOf(S) == CHOOSE i \in S : \A j \in S : i <= j

MaxOf(S) == CHOOSE i \in S : \A j \in S : i >= j

\* strings.SplitN(s, "/", 2)
SplitN2(s) ==
    IF SlashPositions(s) = {} THEN <<s>>
    ELSE LET i == MinOf(SlashPositions(s))
         IN  <<SubSeq(s, 1, i - 1), SubSeq(s, i + 1, Len(s))>>

RECURSIVE StripTrailingSlashes(_)
StripTrailingSlashes(s) ==
    IF Len(s) > 0 /\ s[Len(s)] = "/"
    THEN StripTrailingSlashes(SubSeq(s, 1, Len(s) - 1))
    ELSE s

\* filepath.Base
Base(path) ==
    IF path = EmptyStr THEN <<".">>
    ELSE LET t == StripTrailingSlashes(path)
             u == IF SlashPositions(t) = {} THEN t
                  ELSE SubSeq(t, MaxOf(SlashPositions(t)) + 1, Len(t))
         IN  IF u = EmptyStr THEN <<"/">> ELSE u

TmpDir == <<"/", "t">>

\* filepath.Join("/tmp", b) for an element b without inner separators
JoinTmp(b) ==
    IF b = <<".">> \/ b = <<"/">> THEN TmpDir
    ELSE IF b = <<".", ".">> THEN <<"/">>
    ELSE TmpDir \o <<"/">> \o b

S3Scheme == <<"s", "3", ":", "/", "/">>

----------------------------------------------------------------------------
(* Values the requests are built from.                                     *)

BaseURL == <<"h">>

DbName == <<"D">>

DocId == <<"i">>

TargetUrlValue == <<"t">>

LocalFile == <<"/", "d", "/", "a">>

MissingFile == <<"/", "d", "/", "m">>

StylesheetFile == <<"/", "r", "/", "s">>

S3Object == <<"s", "3", ":", "/", "/", "b", "/", "k">>

S3Nested == <<"s", "3", ":", "/", "/", "b", "/", "x", "/", "k">>

S3NoKey == <<"s", "3", ":", "/", "/", "b">>

QueryText == <<"q">>

Completed == "CompletedActionStatus"

Failed == "FailedActionStatus"

NoErr == [text |-> "", status |-> 0, body |-> ""]

Err(text) == [text |-> text, status |-> 0, body |-> ""]

\* the body the downstream sends with a response of the given status
ResponseBody(status) ==
    IF status = 400 THEN "bad request" ELSE IF status = 500 THEN "server error" ELSE ""

\* fmt.Errorf("... status %d: %s", resp.StatusCode, string(body))
StatusErr(text, status) == [text |-> text, status |-> status, body |-> ResponseBody(status)]

----------------------------------------------------------------------------
(* The downstream XML database and the object-store gateway are external:  *)
(* their replies are drawn from these sets.  Status 0 stands for a         *)
(* transport-level failure (no response at all).                           *)

DownstreamStatuses == {0, 200, 302, 400, 500}

Contents == {"xml", "json-result-string"}

\* the kinds of content the gateway can stage: no JSON, a JSON array, JSON
\* null, a JSON object without result, with a number as result, with a string
StagedContents ==
    {"xml", "json-array", "json-null", "json-no-result", "json-result-number",
     "json-result-string"}

\* a reply of the gateway, and whether it wrote the object to the requested
\* path before replying (the content matters only when the reply lets the
\* upload go on and read it); actionStatus "" stands for a decoded reply whose
\* actionStatus is missing or is not a string
GatewayReplies ==
    [kind : {"transport", "httperror", "undecodable"},
     actionStatus : {""}, wrote : BOOLEAN, content : {"xml"}]
    \cup
    [kind : {"json"}, actionStatus : {Failed}, wrote : BOOLEAN, content : {"xml"}]
    \cup
    [kind : {"json"}, actionStatus : {Completed, ""}, wrote : {FALSE}, content : {"xml"}]
    \cup
    [kind : {"json"}, actionStatus : {Completed, ""}, wrote : {TRUE}, content : StagedContents]

NoReply == [kind |-> "transport", actionStatus |-> "", wrote |-> FALSE, content |-> "xml"]

NoCalls == <<>>

\* the environment variables the service reads
EnvNames == {"BASEX_API_KEY", "S3_SERVICE_URL", "HETZNER_S3_URL", "HETZNER_S3_REGION",
             "HETZNER_S3_ACCESS_KEY", "HETZNER_S3_SECRET_KEY"}

\* environments: nothing set, and everything set
Environs == {[n \in EnvNames |-> v] : v \in {"", "a"}}

\* os.Getenv
Getenv(name) == environ[name]

\* os.Getenv with the default the code falls back to for an empty value
GetenvOr(name, default) == IF Getenv(name) = "" THEN default ELSE Getenv(name)

NoSettings == [serviceURL |-> "", url |-> "", region |-> "", accessKey |-> "",
               secretKey |-> ""]

\* the object-store settings downloadFromS3 puts into its request
GatewaySettings ==
    [serviceURL |-> GetenvOr("S3_SERVICE_URL", "http://localhost:8092"),
     url |-> GetenvOr("HETZNER_S3_URL", "https://fsn1.your-objectstorage.com"),
     region |-> GetenvOr("HETZNER_S3_REGION", "fsn1"),
     accessKey |-> Getenv("HETZNER_S3_ACCESS_KEY"),
     secretKey |-> Getenv("HETZNER_S3_SECRET_KEY")]

\* the same settings taken from the environment the process was started with
StartupSettings ==
    LET get(n, d) == IF startEnviron[n] = "" THEN d ELSE startEnviron[n]
    IN  [serviceURL |-> get("S3_SERVICE_URL", "http://localhost:8092"),
         url |-> get("HETZNER_S3_URL", "https://fsn1.your-objectstorage.com"),
         region |-> get("HETZNER_S3_REGION", "fsn1"),
         accessKey |-> startEnviron["HETZNER_S3_ACCESS_KEY"],
         secretKey |-> startEnviron["HETZNER_S3_SECRET_KEY"]]

\* an outbound call together with the reply it got
BaseXCall(method, baseURL, dbName, hasResource, resource, body, ds) ==
    [svc |-> "basex", method |-> method, base |-> baseURL, db |-> dbName,
     hasResource |-> hasResource, resource |-> resource, body |-> body,
     status |-> ds, replyKind |-> "http", delivered |-> "", actionStatus |-> "",
     wrote |-> FALSE, settings |-> NoSettings]

GatewayStatus(reply) ==
    IF reply.kind = "transport" THEN 0 ELSE IF reply.kind = "httperror" THEN 500 ELSE 200

\* variant: the settings are the ones the process was started with
S3Call_StartupSettings(bucket, key, downloadPath, reply) ==
    [svc |-> "s3", method |-> "POST", base |-> bucket, db |-> key,
     hasResource |-> TRUE, resource |-> downloadPath, body |-> "DownloadAction",
     status |-> GatewayStatus(reply), replyKind |-> reply.kind,
     delivered |-> IF reply.wrote THEN reply.content ELSE "", actionStatus |-> reply.actionStatus,
     wrote |-> reply.wrote, settings |-> StartupSettings]

S3Call(bucket, key, downloadPath, reply) ==
    [svc |-> "s3", method |-> "POST", base |-> bucket, db |-> key,
     hasResource |-> TRUE, resource |-> downloadPath, body |-> "DownloadAction",
     status |-> GatewayStatus(reply), replyKind |-> reply.kind,
     delivered |-> IF reply.wrote THEN reply.content ELSE "", actionStatus |-> reply.actionStatus,
     wrote |-> reply.wrote, settings |-> GatewaySettings]

----------------------------------------------------------------------------
(* BaseX client functions.  Each returns the error, the calls it issued    *)
(* and the downstream state after the call.                                *)

Accepted(ds) == ds >= 200 /\ ds <= 299

ClientResult(err, cs, dbs, body) == [err |-> err, calls |-> cs, databases |-> dbs, body |-> body]

\* the loop of uploadXSLTToBaseX that keeps what follows the last '/'
Filename(xsltPath) ==
    IF SlashPositions(xsltPath) = {} THEN xsltPath
    ELSE SubSeq(xsltPath, MaxOf(SlashPositions(xsltPath)) + 1, Len(xsltPath))

uploadXSLTToBaseX(baseURL, dbName, xsltPath, fs, dbs, ds) ==
    IF xsltPath \notin DOMAIN fs
    THEN ClientResult(Err("failed to open XSLT file"), NoCalls, dbs, "")
    ELSE LET call == BaseXCall("PUT", baseURL, dbName, TRUE, Filename(xsltPath), fs[xsltPath], ds)
         IN  IF ds = 0 THEN ClientResult(Err("failed to upload XSLT"), <<call>>, dbs, "")
             ELSE IF ds >= 400
             THEN ClientResult(StatusErr("BaseX upload failed with status", ds), <<call>>, dbs, "")
             ELSE ClientResult(NoErr, <<call>>, dbs, "")

\* variant: every status outside 200..299 is an error
executeXQuery_Non2xx(baseURL, dbName, query, dbs, ds) ==
    LET call == BaseXCall("POST", baseURL, dbName, FALSE, EmptyStr, "query-envelope", ds)
    IN  IF ds = 0 THEN ClientResult(Err("failed to execute query"), <<call>>, dbs, "")
        ELSE IF ~Accepted(ds)
        THEN ClientResult(StatusErr("BaseX query failed with status", ds), <<call>>, dbs, "")
        ELSE ClientResult(NoErr, <<call>>, dbs, "downstream-body")

executeXQuery(baseURL, dbName, query, dbs, ds) ==
    LET call == BaseXCall("POST", baseURL, dbName, FALSE, EmptyStr, "query-envelope", ds)
    IN  IF ds = 0 THEN ClientResult(Err("failed to execute query"), <<call>>, dbs, "")
        ELSE IF ds >= 400
        THEN ClientResult(StatusErr("BaseX query failed with status", ds), <<call>>, dbs, "")
        ELSE ClientResult(NoErr, <<call>>, dbs, "downstream-body")

\* json.Unmarshal of a file's content into map[string]interface{}: whether it
\* fails, and the result entry of the map it fills
Unmarshal(content) ==
    CASE content = "json-null"
           -> [err |-> FALSE, hasResult |-> FALSE, isString |-> FALSE, text |-> ""]
      [] content = "json-no-result"
           -> [err |-> FALSE, hasResult |-> FALSE, isString |-> FALSE, text |-> ""]
      [] content = "json-result-number"
           -> [err |-> FALSE, hasResult |-> TRUE, isString |-> FALSE, text |-> "42"]
      [] content = "json-result-string"
           -> [err |-> FALSE, hasResult |-> TRUE, isString |-> TRUE, text |-> "result-string"]
      [] OTHER
           -> [err |-> TRUE, hasResult |-> FALSE, isString |-> FALSE, text |-> ""]

\* variant: the result is substituted whatever its type
Payload_AnyResult(content) ==
    LET jsonData == Unmarshal(content)
    IN  IF ~jsonData.err /\ jsonData.hasResult THEN jsonData.text ELSE content

\* the payload uploadFileToBaseX sends for a file's content
Payload(content) ==
    LET jsonData == Unmarshal(content)
    IN  IF ~jsonData.err /\ jsonData.hasResult /\ jsonData.isString
        THEN jsonData.text
        ELSE content

uploadFileToBaseX(baseURL, dbName, filePath, targetPath, fs, dbs, ds) ==
    IF filePath \notin DOMAIN fs
    THEN ClientResult(Err("failed to read file"), NoCalls, dbs, "")
    ELSE LET call == BaseXCall("PUT", baseURL, dbName, TRUE, targetPath, Payload(fs[filePath]), ds)
         IN  IF ds = 0 THEN ClientResult(Err("failed to upload file"), <<call>>, dbs, "")
             ELSE IF ds >= 400
             THEN ClientResult(StatusErr("BaseX upload failed with status", ds), <<call>>, dbs, "")
             ELSE ClientResult(NoErr, <<call>>, dbs, "")

\* variant: a rejected create is not reported to the handler
createBaseXDatabase_Swallow(baseURL, dbName, dbs, ds) ==
    LET call == BaseXCall("PUT", baseURL, dbName, FALSE, EmptyStr, "", ds)
    IN  IF ds = 0 THEN ClientResult(Err("failed to create database"), <<call>>, dbs, "")
        ELSE ClientResult(NoErr, <<call>>, IF Accepted(ds) THEN dbs \cup {dbName} ELSE dbs, "")

createBaseXDatabase(baseURL, dbName, dbs, ds) ==
    LET call == BaseXCall("PUT", baseURL, dbName, FALSE, EmptyStr, "", ds)
    IN  IF ds = 0 THEN ClientResult(Err("failed to create database"), <<call>>, dbs, "")
        ELSE IF ds >= 400
        THEN ClientResult(StatusErr("BaseX create database failed with status", ds), <<call>>, dbs, "")
        ELSE ClientResult(NoErr, <<call>>, IF Accepted(ds) THEN dbs \cup {dbName} ELSE dbs, "")

\* variant: a transport failure is followed by a second attempt
deleteBaseXDatabase_Retry(baseURL, dbName, dbs, ds) ==
    LET call == BaseXCall("DELETE", baseURL, dbName, FALSE, EmptyStr, "", ds)
    IN  IF ds = 0 THEN ClientResult(Err("failed to delete database"), <<call, call>>, dbs, "")
        ELSE IF ds >= 400
        THEN ClientResult(StatusErr("BaseX delete database failed with status", ds), <<call>>, dbs, "")
        ELSE ClientResult(NoErr, <<call>>, IF Accepted(ds) THEN dbs \ {dbName} ELSE dbs, "")

deleteBaseXDatabase(baseURL, dbName, dbs, ds) ==
    LET call == BaseXCall("DELETE", baseURL, dbName, FALSE, EmptyStr, "", ds)
    IN  IF ds = 0 THEN ClientResult(Err("failed to delete database"), <<call>>, dbs, "")
        ELSE IF ds >= 400
        THEN ClientResult(StatusErr("BaseX delete database failed with status", ds), <<call>>, dbs, "")
        ELSE ClientResult(NoErr, <<call>>, IF Accepted(ds) THEN dbs \ {dbName} ELSE dbs, "")

deleteBaseXDocument(baseURL, dbName, docPath, dbs, ds) ==
    LET call == BaseXCall("DELETE", baseURL, dbName, TRUE, docPath, "", ds)
    IN  IF ds = 0 THEN ClientResult(Err("failed to delete document"), <<call>>, dbs, "")
        ELSE IF ds >= 400
        THEN ClientResult(StatusErr("BaseX delete document failed with status", ds), <<call>>, dbs, "")
        ELSE ClientResult(NoErr, <<call>>, dbs, "")

\* the local path downloadFromS3 asks the gateway to write to
DownloadPath(s3URL) ==
    LET parts == SplitN2(TrimPrefix(s3URL, S3Scheme))
    IN  IF Len(parts) # 2 THEN EmptyStr ELSE JoinTmp(Base(parts[2]))

\* the gateway writes the object to the requested path when it gets that far
Staged(fs, path, reply) ==
    IF reply.wrote
    THEN [q \in DOMAIN fs \cup {path} |-> IF q = path THEN reply.content ELSE fs[q]]
    ELSE fs

downloadFromS3(s3URL, fs, reply) ==
    LET parts == SplitN2(TrimPrefix(s3URL, S3Scheme))
    IN  IF Len(parts) # 2
        THEN [err |-> Err("invalid S3 URL format, expected s3://bucket/key"),
              path |-> EmptyStr, calls |-> NoCalls, files |-> fs]
        ELSE LET downloadPath == JoinTmp(Base(parts[2]))
                 call == S3Call(parts[1], parts[2], downloadPath, reply)
                 fs2 == Staged(fs, downloadPath, reply)
                 fail(e) == [err |-> e, path |-> EmptyStr, calls |-> <<call>>, files |-> fs2]
             IN  IF reply.kind = "transport" THEN fail(Err("failed to call s3service"))
                 ELSE IF reply.kind = "httperror" THEN fail(Err("s3service returned status"))
                 ELSE IF reply.kind = "undecodable" THEN fail(Err("failed to parse s3service response"))
                 ELSE IF reply.actionStatus # "" /\ reply.actionStatus # Completed
                 THEN fail(Err("s3service download failed with status"))
                 ELSE [err |-> NoErr, path |-> downloadPath, calls |-> <<call>>, files |-> fs2]

\* os.Remove
Remove(fs, path) == [q \in DOMAIN fs \ {path} |-> fs[q]]

----------------------------------------------------------------------------
(* Helpers of the semantic library the handlers call.                      *)

NoObject == [present |-> FALSE, type |-> "", identifier |-> EmptyStr,
             contentUrl |-> EmptyStr, url |-> EmptyStr]

NoDatabase == [present |-> FALSE, identifier |-> EmptyStr, url |-> EmptyStr]

NoInstrument == [present |-> FALSE, contentUrl |-> EmptyStr, codeRepository |-> EmptyStr]

NoResult == [kind |-> "absent", identifier |-> EmptyStr, url |-> EmptyStr]

GetXSLTStylesheetFromAction(action) ==
    IF action.instrument.present
    THEN [err |-> NoErr, xslt |-> action.instrument]
    ELSE [err |-> Err("instrument is missing"), xslt |-> NoInstrument]

GetXMLDatabaseFromAction(action) ==
    IF action.target.present
    THEN [err |-> NoErr, database |-> action.target]
    ELSE [err |-> Err("target is missing"), database |-> NoDatabase]

GetXMLDocumentFromAction(action) ==
    IF action.object.present
    THEN [err |-> NoErr, xmlDoc |-> action.object]
    ELSE [err |-> Err("object is missing"), xmlDoc |-> NoObject]

GetQueryFromAction(action) == action.query

GetTargetUrlFromAction(action) == action.targetUrl

ExtractDatabaseCredentials(database) ==
    IF ~database.present
    THEN [err |-> Err("database is nil"), baseURL |-> EmptyStr]
    ELSE IF database.url = EmptyStr
    THEN [err |-> Err("database URL could not be resolved"), baseURL |-> EmptyStr]
    ELSE [err |-> NoErr, baseURL |-> database.url]

HTTPError(code, message, detail) ==
    [code |-> code, kind |-> "httperror", actionStatus |-> "", message |-> message,
     err |-> NoErr, detail |-> detail, output |-> "", echo |-> <<>>]

\* the action document written back by c.JSON
ActionResponse(code, action, status, message, err, output) ==
    [code |-> code, kind |-> "action", actionStatus |-> status, message |-> message,
     err |-> err, detail |-> action.type, output |-> output, echo |-> <<action>>]

ReturnActionError(action, message, err) ==
    ActionResponse(200, action, Failed, message, err, "")

\* semantic.SetSuccessOnAction followed by c.JSON(http.StatusOK, action)
SetSuccessOnAction(action, output) ==
    ActionResponse(200, action, Completed, "", NoErr, output)

HandlerResult(h, resp, cs, fs, dbs) ==
    [handler |-> h, resp |-> resp, calls |-> cs, files |-> fs, databases |-> dbs]

----------------------------------------------------------------------------
(* Handler routines.                                                       *)

\* variant: the staged stylesheet is applied by a query call
executeTransformActionImpl_AndTransform(action, fs, dbs, ds) ==
    LET h == "transform"
        x == GetXSLTStylesheetFromAction(action)
        d == GetXMLDatabaseFromAction(action)
        c == ExtractDatabaseCredentials(d.database)
        xsltPath == IF x.xslt.contentUrl = EmptyStr THEN x.xslt.codeRepository
                    ELSE x.xslt.contentUrl
        up == uploadXSLTToBaseX(c.baseURL, d.database.identifier, xsltPath, fs, dbs, ds)
        run == executeXQuery(c.baseURL, d.database.identifier, QueryText, dbs, ds)
        fail(m, e) == HandlerResult(h, ReturnActionError(action, m, e), NoCalls, fs, dbs)
    IN  IF x.err # NoErr THEN fail("Failed to extract XSLT stylesheet", x.err)
        ELSE IF d.err # NoErr THEN fail("Failed to extract XML database", d.err)
        ELSE IF c.err # NoErr THEN fail("Failed to extract database credentials", c.err)
        ELSE IF xsltPath = EmptyStr THEN fail("XSLT stylesheet path required", NoErr)
        ELSE IF up.err # NoErr
        THEN HandlerResult(h, ReturnActionError(action, "Failed to upload XSLT", up.err),
                           up.calls, fs, up.databases)
        ELSE HandlerResult(h, SetSuccessOnAction(action, run.body), up.calls \o run.calls,
                           fs, up.databases)

\* variant: the source repository location is preferred to the contentUrl
executeTransformActionImpl_RepositoryFirst(action, fs, dbs, ds) ==
    LET h == "transform"
        x == GetXSLTStylesheetFromAction(action)
        d == GetXMLDatabaseFromAction(action)
        c == ExtractDatabaseCredentials(d.database)
        xsltPath == IF x.xslt.codeRepository = EmptyStr THEN x.xslt.contentUrl
                    ELSE x.xslt.codeRepository
        up == uploadXSLTToBaseX(c.baseURL, d.database.identifier, xsltPath, fs, dbs, ds)
        fail(m, e) == HandlerResult(h, ReturnActionError(action, m, e), NoCalls, fs, dbs)
    IN  IF x.err # NoErr THEN fail("Failed to extract XSLT stylesheet", x.err)
        ELSE IF d.err # NoErr THEN fail("Failed to extract XML database", d.err)
        ELSE IF c.err # NoErr THEN fail("Failed to extract database credentials", c.err)
        ELSE IF xsltPath = EmptyStr THEN fail("XSLT stylesheet path required", NoErr)
        ELSE IF up.err # NoErr
        THEN HandlerResult(h, ReturnActionError(action, "Failed to upload XSLT", up.err),
                           up.calls, fs, up.databases)
        ELSE HandlerResult(h, SetSuccessOnAction(action, ""), up.calls, fs, up.databases)

executeTransformActionImpl(action, fs, dbs, ds) ==
    LET h == "transform"
        x == GetXSLTStylesheetFromAction(action)
        d == GetXMLDatabaseFromAction(action)
        c == ExtractDatabaseCredentials(d.database)
        xsltPath == IF x.xslt.contentUrl = EmptyStr THEN x.xslt.codeRepository
                    ELSE x.xslt.contentUrl
        up == uploadXSLTToBaseX(c.baseURL, d.database.identifier, xsltPath, fs, dbs, ds)
        fail(m, e) == HandlerResult(h, ReturnActionError(action, m, e), NoCalls, fs, dbs)
    IN  IF x.err # NoErr THEN fail("Failed to extract XSLT stylesheet", x.err)
        ELSE IF d.err # NoErr THEN fail("Failed to extract XML database", d.err)
        ELSE IF c.err # NoErr THEN fail("Failed to extract database credentials", c.err)
        ELSE IF xsltPath = EmptyStr THEN fail("XSLT stylesheet path required", NoErr)
        ELSE IF up.err # NoErr
        THEN HandlerResult(h, ReturnActionError(action, "Failed to upload XSLT", up.err),
                           up.calls, fs, up.databases)
        ELSE HandlerResult(h, SetSuccessOnAction(action, ""), up.calls, fs, up.databases)


\* variant: the success path writes the action back without setting its status
executeQueryActionImpl_NoStatus(action, fs, dbs, ds) ==
    LET h == "query"
        query == GetQueryFromAction(action)
        d == GetXMLDatabaseFromAction(action)
        c == ExtractDatabaseCredentials(d.database)
        r == executeXQuery(c.baseURL, d.database.identifier, query, dbs, ds)
        fail(m, e) == HandlerResult(h, ReturnActionError(action, m, e), NoCalls, fs, dbs)
    IN  IF query = EmptyStr THEN fail("Query is required", NoErr)
        ELSE IF d.err # NoErr THEN fail("Failed to extract database", d.err)
        ELSE IF c.err # NoErr THEN fail("Failed to extract database credentials", c.err)
        ELSE IF r.err # NoErr
        THEN HandlerResult(h, ReturnActionError(action, "Failed to execute query", r.err),
                           r.calls, fs, r.databases)
        ELSE HandlerResult(h, ActionResponse(200, action, "", "", NoErr, r.body),
                           r.calls, fs, r.databases)

executeQueryActionImpl(action, fs, dbs, ds) ==
    LET h == "query"
        query == GetQueryFromAction(action)
        d == GetXMLDatabaseFromAction(action)
        c == ExtractDatabaseCredentials(d.database)
        r == executeXQuery(c.baseURL, d.database.identifier, query, dbs, ds)
        fail(m, e) == HandlerResult(h, ReturnActionError(action, m, e), NoCalls, fs, dbs)
    IN  IF query = EmptyStr THEN fail("Query is required", NoErr)
        ELSE IF d.err # NoErr THEN fail("Failed to extract database", d.err)
        ELSE IF c.err # NoErr THEN fail("Failed to extract database credentials", c.err)
        ELSE IF r.err # NoErr
        THEN HandlerResult(h, ReturnActionError(action, "Failed to execute query", r.err),
                           r.calls, fs, r.databases)
        ELSE HandlerResult(h, SetSuccessOnAction(action, r.body), r.calls, fs, r.databases)


\* executeUploadAction from the upload call on: the response for its outcome
uploadOutcome(action, cs1, fsAfter, up) ==
    IF up.err # NoErr
    THEN HandlerResult("upload", ReturnActionError(action, "Failed to upload file", up.err),
                       cs1 \o up.calls, fsAfter, up.databases)
    ELSE HandlerResult("upload", SetSuccessOnAction(action, ""), cs1 \o up.calls, fsAfter,
                       up.databases)

\* variant: the staged path is written back into the document's contentUrl
uploadStaged_RewritesContentUrl(action, baseURL, dbName, targetPath, dl, dbs, ds) ==
    IF dl.err # NoErr
    THEN HandlerResult("upload",
                       ReturnActionError(action, "Failed to download from S3", dl.err),
                       dl.calls, dl.files, dbs)
    ELSE uploadOutcome([action EXCEPT !.object.contentUrl = dl.path], dl.calls,
                       Remove(dl.files, dl.path),
                       uploadFileToBaseX(baseURL, dbName, dl.path, targetPath,
                                         dl.files, dbs, ds))

\* variant: the staged upload is issued ahead of the retrieval
uploadStaged_UploadFirst(action, baseURL, dbName, targetPath, dl, dbs, ds) ==
    IF dl.err # NoErr
    THEN HandlerResult("upload",
                       ReturnActionError(action, "Failed to download from S3", dl.err),
                       dl.calls, dl.files, dbs)
    ELSE LET up == uploadFileToBaseX(baseURL, dbName, dl.path, targetPath, dl.files, dbs, ds)
         IN  uploadOutcome(action, NoCalls, Remove(dl.files, dl.path),
                           [up EXCEPT !.calls = @ \o dl.calls])

\* executeUploadAction for an s3:// contentUrl, given the download's outcome:
\* the deferred os.Remove is set up only once the download has succeeded
uploadStaged(action, baseURL, dbName, targetPath, dl, dbs, ds) ==
    IF dl.err # NoErr
    THEN HandlerResult("upload",
                       ReturnActionError(action, "Failed to download from S3", dl.err),
                       dl.calls, dl.files, dbs)
    ELSE uploadOutcome(action, dl.calls, Remove(dl.files, dl.path),
                       uploadFileToBaseX(baseURL, dbName, dl.path, targetPath,
                                         dl.files, dbs, ds))

\* variant: a missing contentUrl is answered with an HTTP error, as the first draft did
executeUploadAction_HTTPError(action, fs, dbs, ds, reply) ==
    LET h == "upload"
        x == GetXMLDocumentFromAction(action)
        d == GetXMLDatabaseFromAction(action)
        c == ExtractDatabaseCredentials(d.database)
        filePath == x.xmlDoc.contentUrl
        targetPath == IF GetTargetUrlFromAction(action) = EmptyStr THEN x.xmlDoc.identifier
                      ELSE GetTargetUrlFromAction(action)
        fail(m, e) == HandlerResult(h, ReturnActionError(action, m, e), NoCalls, fs, dbs)
    IN  IF x.err # NoErr THEN fail("Failed to extract XML document", x.err)
        ELSE IF d.err # NoErr THEN fail("Failed to extract database", d.err)
        ELSE IF c.err # NoErr THEN fail("Failed to extract database credentials", c.err)
        ELSE IF filePath = EmptyStr
        THEN HandlerResult(h, HTTPError(400, "Document contentUrl is required", ""),
                           NoCalls, fs, dbs)
        ELSE IF HasPrefix(filePath, S3Scheme)
        THEN uploadStaged(action, c.baseURL, d.database.identifier, targetPath,
                          downloadFromS3(filePath, fs, reply), dbs, ds)
        ELSE uploadOutcome(action, NoCalls, fs,
                           uploadFileToBaseX(c.baseURL, d.database.identifier, filePath,
                                             targetPath, fs, dbs, ds))

\* variant: the identifier takes precedence over the targetUrl
executeUploadAction_IdentifierFirst(action, fs, dbs, ds, reply) ==
    LET h == "upload"
        x == GetXMLDocumentFromAction(action)
        d == GetXMLDatabaseFromAction(action)
        c == ExtractDatabaseCredentials(d.database)
        filePath == x.xmlDoc.contentUrl
        targetPath == IF x.xmlDoc.identifier = EmptyStr THEN GetTargetUrlFromAction(action)
                      ELSE x.xmlDoc.identifier
        fail(m, e) == HandlerResult(h, ReturnActionError(action, m, e), NoCalls, fs, dbs)
    IN  IF x.err # NoErr THEN fail("Failed to extract XML document", x.err)
        ELSE IF d.err # NoErr THEN fail("Failed to extract database", d.err)
        ELSE IF c.err # NoErr THEN fail("Failed to extract database credentials", c.err)
        ELSE IF filePath = EmptyStr THEN fail("Document contentUrl is required", NoErr)
        ELSE IF HasPrefix(filePath, S3Scheme)
        THEN uploadStaged(action, c.baseURL, d.database.identifier, targetPath,
                          downloadFromS3(filePath, fs, reply), dbs, ds)
        ELSE uploadOutcome(action, NoCalls, fs,
                           uploadFileToBaseX(c.baseURL, d.database.identifier, filePath,
                                             targetPath, fs, dbs, ds))

executeUploadAction(action, fs, dbs, ds, reply) ==
    LET h == "upload"
        x == GetXMLDocumentFromAction(action)
        d == GetXMLDatabaseFromAction(action)
        c == ExtractDatabaseCredentials(d.database)
        filePath == x.xmlDoc.contentUrl
        targetPath == IF GetTargetUrlFromAction(action) = EmptyStr THEN x.xmlDoc.identifier
                      ELSE GetTargetUrlFromAction(action)
        fail(m, e) == HandlerResult(h, ReturnActionError(action, m, e), NoCalls, fs, dbs)
    IN  IF x.err # NoErr THEN fail("Failed to extract XML document", x.err)
        ELSE IF d.err # NoErr THEN fail("Failed to extract database", d.err)
        ELSE IF c.err # NoErr THEN fail("Failed to extract database credentials", c.err)
        ELSE IF filePath = EmptyStr THEN fail("Document contentUrl is required", NoErr)
        ELSE IF HasPrefix(filePath, S3Scheme)
        THEN uploadStaged(action, c.baseURL, d.database.identifier, targetPath,
                          downloadFromS3(filePath, fs, reply), dbs, ds)
        ELSE uploadOutcome(action, NoCalls, fs,
                           uploadFileToBaseX(c.baseURL, d.database.identifier, filePath,
                                             targetPath, fs, dbs, ds))

\* the type switch on Properties["result"] shared by the create and delete handlers
ResultAsDatabase(result) ==
    IF result.kind = "map"
    THEN [err |-> NoErr,
          database |-> [present |-> TRUE, identifier |-> result.identifier, url |-> result.url]]
    ELSE IF result.kind = "badmap"
    THEN [err |-> Err("json: cannot unmarshal"), database |-> NoDatabase]
    ELSE [err |-> NoErr, database |-> NoDatabase]


\* variant: a missing result is reported with no message and no error value
executeCreateDatabaseAction_NoMessage(action, fs, dbs, ds) ==
    LET h == "createDatabase"
        r == ResultAsDatabase(action.result)
        database == r.database
        c == ExtractDatabaseCredentials(database)
        cr == createBaseXDatabase(c.baseURL, database.identifier, dbs, ds)
        fail(m, e) == HandlerResult(h, ReturnActionError(action, m, e), NoCalls, fs, dbs)
    IN  IF r.err # NoErr THEN fail("Failed to parse database", r.err)
        ELSE IF ~database.present THEN fail("", NoErr)
        ELSE IF c.err # NoErr THEN fail("Failed to extract database credentials", c.err)
        ELSE IF cr.err # NoErr
        THEN HandlerResult(h, ReturnActionError(action, "Failed to create database", cr.err),
                           cr.calls, fs, cr.databases)
        ELSE HandlerResult(h, SetSuccessOnAction(action, ""), cr.calls, fs, cr.databases)

\* variant: success is reported without the create call
executeCreateDatabaseAction_SkipCreate(action, fs, dbs, ds) ==
    LET h == "createDatabase"
        r == ResultAsDatabase(action.result)
        database == r.database
        c == ExtractDatabaseCredentials(database)
        fail(m, e) == HandlerResult(h, ReturnActionError(action, m, e), NoCalls, fs, dbs)
    IN  IF r.err # NoErr THEN fail("Failed to parse database", r.err)
        ELSE IF ~database.present THEN fail("Database result is required", NoErr)
        ELSE IF c.err # NoErr THEN fail("Failed to extract database credentials", c.err)
        ELSE HandlerResult(h, SetSuccessOnAction(action, ""), NoCalls, fs, dbs)

executeCreateDatabaseAction(action, fs, dbs, ds) ==
    LET h == "createDatabase"
        r == ResultAsDatabase(action.result)
        database == r.database
        c == ExtractDatabaseCredentials(database)
        cr == createBaseXDatabase(c.baseURL, database.identifier, dbs, ds)
        fail(m, e) == HandlerResult(h, ReturnActionError(action, m, e), NoCalls, fs, dbs)
    IN  IF r.err # NoErr THEN fail("Failed to parse database", r.err)
        ELSE IF ~database.present THEN fail("Database result is required", NoErr)
        ELSE IF c.err # NoErr THEN fail("Failed to extract database credentials", c.err)
        ELSE IF cr.err # NoErr
        THEN HandlerResult(h, ReturnActionError(action, "Failed to create database", cr.err),
                           cr.calls, fs, cr.databases)
        ELSE HandlerResult(h, SetSuccessOnAction(action, ""), cr.calls, fs, cr.databases)

\* the Object field converted to an XMLDatabase, kept only with an identifier
ObjectAsDatabase(object) ==
    IF object.present /\ object.type = "Database" /\ object.identifier # EmptyStr
    THEN [present |-> TRUE, identifier |-> object.identifier, url |-> object.url]
    ELSE NoDatabase

\* variant: the result property is looked at before the object
executeDeleteDatabaseAction_ResultFirst(action, fs, dbs, ds) ==
    LET h == "deleteDatabase"
        fromObject == ObjectAsDatabase(action.object)
        fromResult == ResultAsDatabase(action.result)
        r == IF fromResult.err # NoErr \/ fromResult.database.present THEN fromResult
             ELSE [err |-> NoErr, database |-> fromObject]
        database == r.database
        c == ExtractDatabaseCredentials(database)
        del == deleteBaseXDatabase(c.baseURL, database.identifier, dbs, ds)
        fail(m, e) == HandlerResult(h, ReturnActionError(action, m, e), NoCalls, fs, dbs)
    IN  IF r.err # NoErr THEN fail("Failed to parse database", r.err)
        ELSE IF ~database.present THEN fail("Database object or result is required", NoErr)
        ELSE IF c.err # NoErr THEN fail("Failed to extract database credentials", c.err)
        ELSE IF del.err # NoErr
        THEN HandlerResult(h, ReturnActionError(action, "Failed to delete database", del.err),
                           del.calls, fs, del.databases)
        ELSE HandlerResult(h, SetSuccessOnAction(action, ""), del.calls, fs, del.databases)

executeDeleteDatabaseAction(action, fs, dbs, ds) ==
    LET h == "deleteDatabase"
        fromObject == ObjectAsDatabase(action.object)
        r == IF fromObject.present THEN [err |-> NoErr, database |-> fromObject]
             ELSE ResultAsDatabase(action.result)
        database == r.database
        c == ExtractDatabaseCredentials(database)
        del == deleteBaseXDatabase(c.baseURL, database.identifier, dbs, ds)
        fail(m, e) == HandlerResult(h, ReturnActionError(action, m, e), NoCalls, fs, dbs)
    IN  IF r.err # NoErr THEN fail("Failed to parse database", r.err)
        ELSE IF ~database.present THEN fail("Database object or result is required", NoErr)
        ELSE IF c.err # NoErr THEN fail("Failed to extract database credentials", c.err)
        ELSE IF del.err # NoErr
        THEN HandlerResult(h, ReturnActionError(action, "Failed to delete database", del.err),
                           del.calls, fs, del.databases)
        ELSE HandlerResult(h, SetSuccessOnAction(action, ""), del.calls, fs, del.databases)

\* variant: the delete call is issued although the document names no path
executeDeleteDocumentAction_NoPathCheck(action, fs, dbs, ds) ==
    LET h == "deleteDocument"
        x == GetXMLDocumentFromAction(action)
        d == GetXMLDatabaseFromAction(action)
        c == ExtractDatabaseCredentials(d.database)
        documentPath == IF x.xmlDoc.identifier = EmptyStr THEN x.xmlDoc.contentUrl
                        ELSE x.xmlDoc.identifier
        del == deleteBaseXDocument(c.baseURL, d.database.identifier, documentPath, dbs, ds)
        fail(m, e) == HandlerResult(h, ReturnActionError(action, m, e), NoCalls, fs, dbs)
    IN  IF x.err # NoErr THEN fail("Failed to extract XML document", x.err)
        ELSE IF d.err # NoErr THEN fail("Failed to extract database", d.err)
        ELSE IF c.err # NoErr THEN fail("Failed to extract database credentials", c.err)
        ELSE IF del.err # NoErr
        THEN HandlerResult(h, ReturnActionError(action, "Failed to delete document", del.err),
                           del.calls, fs, del.databases)
        ELSE HandlerResult(h, SetSuccessOnAction(action, ""), del.calls, fs, del.databases)

\* variant: the contentUrl takes precedence over the identifier
executeDeleteDocumentAction_ContentUrlFirst(action, fs, dbs, ds) ==
    LET h == "deleteDocument"
        x == GetXMLDocumentFromAction(action)
        d == GetXMLDatabaseFromAction(action)
        c == ExtractDatabaseCredentials(d.database)
        documentPath == IF x.xmlDoc.contentUrl = EmptyStr THEN x.xmlDoc.identifier
                        ELSE x.xmlDoc.contentUrl
        del == deleteBaseXDocument(c.baseURL, d.database.identifier, documentPath, dbs, ds)
        fail(m, e) == HandlerResult(h, ReturnActionError(action, m, e), NoCalls, fs, dbs)
    IN  IF x.err # NoErr THEN fail("Failed to extract XML document", x.err)
        ELSE IF d.err # NoErr THEN fail("Failed to extract database", d.err)
        ELSE IF c.err # NoErr THEN fail("Failed to extract database credentials", c.err)
        ELSE IF documentPath = EmptyStr
        THEN fail("Document identifier or contentUrl is required", NoErr)
        ELSE IF del.err # NoErr
        THEN HandlerResult(h, ReturnActionError(action, "Failed to delete document", del.err),
                           del.calls, fs, del.databases)
        ELSE HandlerResult(h, SetSuccessOnAction(action, ""), del.calls, fs, del.databases)

executeDeleteDocumentAction(action, fs, dbs, ds) ==
    LET h == "deleteDocument"
        x == GetXMLDocumentFromAction(action)
        d == GetXMLDatabaseFromAction(action)
        c == ExtractDatabaseCredentials(d.database)
        documentPath == IF x.xmlDoc.identifier = EmptyStr THEN x.xmlDoc.contentUrl
                        ELSE x.xmlDoc.identifier
        del == deleteBaseXDocument(c.baseURL, d.database.identifier, documentPath, dbs, ds)
        fail(m, e) == HandlerResult(h, ReturnActionError(action, m, e), NoCalls, fs, dbs)
    IN  IF x.err # NoErr THEN fail("Failed to extract XML document", x.err)
        ELSE IF d.err # NoErr THEN fail("Failed to extract database", d.err)
        ELSE IF c.err # NoErr THEN fail("Failed to extract database credentials", c.err)
        ELSE IF documentPath = EmptyStr
        THEN fail("Document identifier or contentUrl is required", NoErr)
        ELSE IF del.err # NoErr
        THEN HandlerResult(h, ReturnActionError(action, "Failed to delete document", del.err),
                           del.calls, fs, del.databases)
        ELSE HandlerResult(h, SetSuccessOnAction(action, ""), del.calls, fs, del.databases)

----------------------------------------------------------------------------
(* Dispatch.                                                               *)


\* variant: route on the presence of the object, whatever its type
handleCreateActionImpl_ByPresence(action, fs, dbs, ds, reply) ==
    IF action.object.present
    THEN executeUploadAction(action, fs, dbs, ds, reply)
    ELSE executeCreateDatabaseAction(action, fs, dbs, ds)

handleCreateActionImpl(action, fs, dbs, ds, reply) ==
    IF action.object.present /\ action.object.type = "DigitalDocument"
    THEN executeUploadAction(action, fs, dbs, ds, reply)
    ELSE executeCreateDatabaseAction(action, fs, dbs, ds)


\* variant: route on the presence of the object, whatever its type
handleDeleteActionImpl_ByPresence(action, fs, dbs, ds) ==
    IF action.object.present
    THEN executeDeleteDocumentAction(action, fs, dbs, ds)
    ELSE executeDeleteDatabaseAction(action, fs, dbs, ds)

handleDeleteActionImpl(action, fs, dbs, ds) ==
    IF action.object.present /\ action.object.type = "DigitalDocument"
    THEN executeDeleteDocumentAction(action, fs, dbs, ds)
    ELSE executeDeleteDatabaseAction(action, fs, dbs, ds)

executeTransformAction(action, fs, dbs, ds) == executeTransformActionImpl(action, fs, dbs, ds)

executeQueryAction(action, fs, dbs, ds) == executeQueryActionImpl(action, fs, dbs, ds)

handleCreateAction(action, fs, dbs, ds, reply) == handleCreateActionImpl(action, fs, dbs, ds, reply)

handleDeleteAction(action, fs, dbs, ds) == handleDeleteActionImpl(action, fs, dbs, ds)


\* variant: the legacy alias is wired to the CreateAction router
handleUploadAction_AsCreate(action, fs, dbs, ds, reply) ==
    handleCreateActionImpl(action, fs, dbs, ds, reply)

handleUploadAction(action, fs, dbs, ds, reply) == executeUploadAction(action, fs, dbs, ds, reply)

\* the action registry: @type -> registered handler
ActionRegistry ==
    [t \in {"UpdateAction", "TransformAction", "SearchAction", "CreateAction",
            "DeleteAction", "UploadAction"} |->
        CASE t \in {"UpdateAction", "TransformAction"} -> "executeTransformAction"
          [] t = "SearchAction" -> "executeQueryAction"
          [] t = "CreateAction" -> "handleCreateAction"
          [] t = "DeleteAction" -> "handleDeleteAction"
          [] t = "UploadAction" -> "handleUploadAction"]

\* semantic.Handle: look the type up in the registry and invoke the handler
Handle(action, fs, dbs, ds, reply) ==
    IF action.type \notin DOMAIN ActionRegistry
    THEN HandlerResult("none", HTTPError(400, "Unsupported action type", action.type),
                       NoCalls, fs, dbs)
    ELSE LET f == ActionRegistry[action.type]
         IN  CASE f = "executeTransformAction" -> executeTransformAction(action, fs, dbs, ds)
               [] f = "executeQueryAction" -> executeQueryAction(action, fs, dbs, ds)
               [] f = "handleCreateAction" -> handleCreateAction(action, fs, dbs, ds, reply)
               [] f = "handleDeleteAction" -> handleDeleteAction(action, fs, dbs, ds)
               [] f = "handleUploadAction" -> handleUploadAction(action, fs, dbs, ds, reply)

\* semantic.ParseSemanticAction: the body must be a JSON object with a string @type
ParseSemanticAction(body) ==
    IF body.kind = "action"
    THEN [err |-> NoErr, action |-> body.action]
    ELSE [err |-> Err("malformed action"), action |-> body.action]


\* variant: the parse error is dropped and the action dispatched anyway
handleSemanticAction_IgnoreParseError(body, fs, dbs, ds, reply) ==
    LET parsed == ParseSemanticAction(body)
        reject(m) == [dispatched |-> FALSE,
                      out |-> HandlerResult("none", HTTPError(400, m, ""), NoCalls, fs, dbs)]
    IN  IF body.kind = "unreadable" THEN reject("Failed to read request body")
        ELSE [dispatched |-> TRUE, out |-> Handle(parsed.action, fs, dbs, ds, reply)]

\* variant: the error returned by the dispatcher is swallowed
handleSemanticAction_SwallowError(body, fs, dbs, ds, reply) ==
    LET parsed == ParseSemanticAction(body)
        reject(m) == [dispatched |-> FALSE,
                      out |-> HandlerResult("none", HTTPError(400, m, ""), NoCalls, fs, dbs)]
        out == Handle(parsed.action, fs, dbs, ds, reply)
    IN  IF body.kind = "unreadable" THEN reject("Failed to read request body")
        ELSE IF parsed.err # NoErr THEN reject("Failed to parse action")
        ELSE IF out.resp.kind = "httperror"
        THEN [dispatched |-> TRUE,
              out |-> HandlerResult(out.handler, HTTPError(200, "", ""), out.calls,
                                    out.files, out.databases)]
        ELSE [dispatched |-> TRUE, out |-> out]

handleSemanticAction(body, fs, dbs, ds, reply) ==
    LET parsed == ParseSemanticAction(body)
        reject(m) == [dispatched |-> FALSE,
                      out |-> HandlerResult("none", HTTPError(400, m, ""), NoCalls, fs, dbs)]
    IN  IF body.kind = "unreadable" THEN reject("Failed to read request body")
        ELSE IF parsed.err # NoErr THEN reject("Failed to parse action")
        ELSE [dispatched |-> TRUE, out |-> Handle(parsed.action, fs, dbs, ds, reply)]

----------------------------------------------------------------------------
(* Requests.                                                               *)

Objects ==
    {NoObject}
    \cup [present : {TRUE}, type : {"Database"}, identifier : {EmptyStr, DbName},
          contentUrl : {EmptyStr}, url : {EmptyStr, BaseURL}]
    \cup [present : {TRUE}, type : {"DigitalDocument"},
          identifier : {EmptyStr, DocId},
          contentUrl : {EmptyStr, LocalFile, MissingFile, S3Object, S3Nested, S3NoKey},
          url : {EmptyStr}]
    \cup [present : {TRUE}, type : {"Dataset"},
          identifier : {EmptyStr, DocId},
          contentUrl : {EmptyStr, LocalFile, S3Object},
          url : {EmptyStr}]

Targets ==
    {NoDatabase} \cup [present : {TRUE}, identifier : {DbName}, url : {EmptyStr, BaseURL}]

Results ==
    {NoResult}
    \cup [kind : {"string", "badmap"}, identifier : {EmptyStr}, url : {EmptyStr}]
    \cup [kind : {"map"}, identifier : {DbName}, url : {EmptyStr, BaseURL}]

Instruments ==
    {NoInstrument}
    \cup [present : {TRUE}, contentUrl : {EmptyStr, LocalFile, MissingFile},
          codeRepository : {EmptyStr, StylesheetFile, MissingFile}]

Action(type, object, target, result, instrument, query, targetUrl) ==
    [type |-> type, identifier |-> "id-1", object |-> object, target |-> target,
     result |-> result, instrument |-> instrument, query |-> query,
     targetUrl |-> targetUrl]

EmptyAction == Action("", NoObject, NoDatabase, NoResult, NoInstrument, EmptyStr, EmptyStr)

TargetUrls == {EmptyStr, TargetUrlValue}

\* each action type with the properties its handlers read
Actions ==
    {Action(t, NoObject, tg, NoResult, i, EmptyStr, EmptyStr) :
        t \in {"UpdateAction", "TransformAction"}, tg \in Targets, i \in Instruments}
    \cup {Action("SearchAction", NoObject, tg, NoResult, NoInstrument, q, EmptyStr) :
        tg \in Targets, q \in {EmptyStr, QueryText}}
    \cup {Action("CreateAction", o, tg, r, NoInstrument, EmptyStr, u) :
        o \in Objects, tg \in Targets, r \in Results, u \in TargetUrls}
    \cup {Action("DeleteAction", o, tg, r, NoInstrument, EmptyStr, EmptyStr) :
        o \in Objects, tg \in Targets, r \in Results}
    \cup {Action("UploadAction", o, tg, NoResult, NoInstrument, EmptyStr, u) :
        o \in Objects, tg \in Targets, u \in TargetUrls}
    \cup {Action("InvalidAction", NoObject, NoDatabase, NoResult, NoInstrument,
                 EmptyStr, EmptyStr)}

Bodies ==
    [kind : {"action"}, action : Actions]
    \cup [kind : {"unreadable", "notjson", "notobject", "notype", "nonstringtype"},
          action : {EmptyAction}]

NoBody == [kind |-> "none", action |-> EmptyAction]

NoResponse == [code |-> 0, kind |-> "none", actionStatus |-> "", message |-> "",
               err |-> NoErr, detail |-> "", output |-> "", echo |-> <<>>]

----------------------------------------------------------------------------
(* The request cycle.                                                      *)

\* the upload requests that are served concurrently
Workers == {1, 2}

\* an upload request that has not arrived
NoUpload == [stage |-> "idle", url |-> EmptyStr, path |-> EmptyStr, readFailed |-> FALSE,
             sent |-> ""]

\* the routes a request can arrive on
SemanticEndpoint == "/v1/api/semantic/action"

DatabasesEndpoint == "/v1/api/databases"

NoEndpoint == ""

\* no request is being served
IdleService ==
    /\ endpoint = NoEndpoint
    /\ uploads = [w \in Workers |-> NoUpload]
    /\ pc = "idle"
    /\ request = NoBody
    /\ response = NoResponse
    /\ dispatched = FALSE
    /\ handler = "none"
    /\ calls = NoCalls
    /\ \E c \in Contents :
          files = [p \in {LocalFile, StylesheetFile} |-> IF p = LocalFile THEN c ELSE "xslt"]
    /\ databases \in SUBSET {DbName}

StartEnviron == [n \in EnvNames |-> "a"]

\* the service is up: main() waits for a signal and the server listens
Init ==
    /\ IdleService
    /\ environ = StartEnviron
    /\ startEnviron = StartEnviron
    /\ apiKey = StartEnviron["BASEX_API_KEY"]
    /\ phase = "waiting"
    /\ server = "listening"
    /\ events = <<"configure", "register", "listen">>

\* the gateway replies only to a request that names a remote object
RepliesFor(body) ==
    IF HasPrefix(body.action.object.contentUrl, S3Scheme) THEN GatewayReplies
    ELSE {NoReply}

\* a request with a body of B arrives at POST /v1/api/semantic/action
ReceiveFrom(B) ==
    /\ pc = "idle"
    /\ server = "listening"
    /\ \E body \in B : request' = body
    /\ pc' = "received"
    /\ response' = NoResponse
    /\ dispatched' = FALSE
    /\ handler' = "none"
    /\ calls' = NoCalls
    /\ UNCHANGED <<files, databases>>
    /\ UNCHANGED procVars
    /\ endpoint' = SemanticEndpoint
    /\ UNCHANGED uploads

Receive == ReceiveFrom(Bodies)

\* handleSemanticAction runs to its return
HandleSemanticAction ==
    /\ pc = "received"
    /\ \E ds \in DownstreamStatuses, reply \in RepliesFor(request) :
          LET r == handleSemanticAction(request, files, databases, ds, reply)
          IN  /\ response' = r.out.resp
              /\ dispatched' = r.dispatched
              /\ handler' = r.out.handler
              /\ calls' = r.out.calls
              /\ files' = r.out.files
              /\ databases' = r.out.databases
    /\ pc' = "responded"
    /\ UNCHANGED request
    /\ UNCHANGED procVars
    /\ UNCHANGED endpoint
    /\ UNCHANGED uploads

\* the response has been written; the server waits for the next request
Respond ==
    /\ pc = "responded"
    /\ pc' = "idle"
    /\ request' = NoBody
    /\ response' = NoResponse
    /\ dispatched' = FALSE
    /\ handler' = "none"
    /\ calls' = NoCalls
    /\ UNCHANGED <<files, databases>>
    /\ UNCHANGED procVars
    /\ endpoint' = NoEndpoint
    /\ UNCHANGED uploads

Next == Receive \/ HandleSemanticAction \/ Respond

Spec == Init /\ [][Next]_vars

----------------------------------------------------------------------------
(* The process: main() from start to exit, with the requests it serves.    *)

reqVars == <<pc, request, response, dispatched, handler, calls, files, databases>>

\* main() reads the API key and installs the route with the key middleware
Configure ==
    /\ phase = "boot"
    /\ apiKey' = Getenv("BASEX_API_KEY")
    /\ phase' = "configured"
    /\ events' = Append(events, "configure")
    /\ UNCHANGED <<environ, startEnviron, server>>
    /\ UNCHANGED reqVars
    /\ UNCHANGED endpoint
    /\ UNCHANGED uploads

\* registry.AutoRegister: a failure is logged and main() goes on
AutoRegister ==
    /\ phase = "configured"
    /\ \E ok \in BOOLEAN :
          events' = Append(events, IF ok THEN "register" ELSE "register-failed")
    /\ phase' = "registered"
    /\ UNCHANGED <<environ, startEnviron, apiKey, server>>
    /\ UNCHANGED reqVars
    /\ UNCHANGED endpoint
    /\ UNCHANGED uploads

\* go func() { e.Start(...) }(): main() goes on to wait for a signal
StartServer ==
    /\ phase = "registered"
    /\ phase' = "waiting"
    /\ server' = "starting"
    /\ UNCHANGED <<environ, startEnviron, apiKey, events>>
    /\ UNCHANGED reqVars
    /\ UNCHANGED endpoint
    /\ UNCHANGED uploads

\* e.Start in the goroutine: the server listens, or fails and logs the error
Listen ==
    /\ server = "starting"
    /\ \E ok \in BOOLEAN :
          /\ server' = IF ok THEN "listening" ELSE "failed"
          /\ events' = Append(events, IF ok THEN "listen" ELSE "listen-failed")
    /\ UNCHANGED <<environ, startEnviron, apiKey, phase>>
    /\ UNCHANGED reqVars
    /\ UNCHANGED endpoint
    /\ UNCHANGED uploads

\* SIGINT or SIGTERM is delivered to the quit channel
Signal ==
    /\ phase = "waiting"
    /\ phase' = "signalled"
    /\ events' = Append(events, "signal")
    /\ UNCHANGED <<environ, startEnviron, apiKey, server>>
    /\ UNCHANGED reqVars
    /\ UNCHANGED endpoint
    /\ UNCHANGED uploads

\* registry.AutoUnregister: a failure is logged and main() goes on
AutoUnregister ==
    /\ phase = "signalled"
    /\ \E ok \in BOOLEAN :
          events' = Append(events, IF ok THEN "unregister" ELSE "unregister-failed")
    /\ phase' = "unregistered"
    /\ UNCHANGED <<environ, startEnviron, apiKey, server>>
    /\ UNCHANGED reqVars
    /\ UNCHANGED endpoint
    /\ UNCHANGED uploads

\* variant: the server is closed as soon as the signal has arrived
Close_OnSignal ==
    /\ phase \in {"signalled", "unregistered"}
    /\ phase' = "stopped"
    /\ server' = "closed"
    /\ events' = Append(events, "close")
    /\ UNCHANGED <<environ, startEnviron, apiKey>>
    /\ UNCHANGED reqVars
    /\ UNCHANGED endpoint
    /\ UNCHANGED uploads

\* e.Close, after which main() returns
Close ==
    /\ phase = "unregistered"
    /\ phase' = "stopped"
    /\ server' = "closed"
    /\ events' = Append(events, "close")
    /\ UNCHANGED <<environ, startEnviron, apiKey>>
    /\ UNCHANGED reqVars
    /\ UNCHANGED endpoint
    /\ UNCHANGED uploads

\* the environment of the running process is changed (os.Setenv)
Setenv ==
    /\ phase \in {"waiting", "signalled", "unregistered"}
    /\ \E e \in Environs \ {environ} : environ' = e
    /\ UNCHANGED <<startEnviron, apiKey, phase, server, events>>
    /\ UNCHANGED reqVars
    /\ UNCHANGED endpoint
    /\ UNCHANGED uploads

\* the requests of the process specification: an upload from the object
\* store and an unsupported action
ProcessBodies ==
    {[kind |-> "action",
      action |-> Action("UploadAction",
                        [present |-> TRUE, type |-> "DigitalDocument", identifier |-> DocId,
                         contentUrl |-> S3Object, url |-> EmptyStr],
                        [present |-> TRUE, identifier |-> DbName, url |-> BaseURL],
                        NoResult, NoInstrument, EmptyStr, EmptyStr)],
     [kind |-> "action",
      action |-> Action("InvalidAction", NoObject, NoDatabase, NoResult, NoInstrument,
                        EmptyStr, EmptyStr)]}

ProcessReceive == ReceiveFrom(ProcessBodies)

InitProcess ==
    /\ IdleService
    /\ environ \in Environs
    /\ startEnviron = environ
    /\ apiKey = ""
    /\ phase = "boot"
    /\ server = "down"
    /\ events = <<>>

NextProcess ==
    \/ Configure
    \/ AutoRegister
    \/ StartServer
    \/ Listen
    \/ Signal
    \/ AutoUnregister
    \/ Close
    \/ Setenv
    \/ ProcessReceive
    \/ HandleSemanticAction
    \/ Respond

SpecProcess == InitProcess /\ [][NextProcess]_vars

----------------------------------------------------------------------------
(* The REST convenience endpoint for database creation.                    *)

\* the requests POST /v1/api/databases receives: a name and a base URL
DatabaseRequests == [name : {EmptyStr, DbName}, baseUrl : {EmptyStr, BaseURL}]

\* the CreateAction createDatabaseREST builds: the database is the action's
\* object, and there is no identifier, target or result
DatabaseCreateAction(req) ==
    [type |-> "CreateAction", identifier |-> "",
     object |-> [present |-> TRUE, type |-> "Database", identifier |-> req.name,
                 contentUrl |-> EmptyStr, url |-> req.baseUrl],
     target |-> NoDatabase, result |-> NoResult, instrument |-> NoInstrument,
     query |-> EmptyStr, targetUrl |-> EmptyStr]

\* callSemanticHandler: the action is marshalled into the body of a request
\* that is handed to handleSemanticAction
callSemanticHandler(action) == [kind |-> "action", action |-> action]

\* createDatabaseREST: an empty name is answered with 400, any other request
\* is repackaged and forwarded to the semantic handler
createDatabaseREST ==
    /\ pc = "idle"
    /\ server = "listening"
    /\ \E req \in DatabaseRequests :
          IF req.name = EmptyStr
          THEN /\ request' = NoBody
               /\ response' = HTTPError(400, "name is required", "")
               /\ pc' = "responded"
          ELSE /\ request' = callSemanticHandler(DatabaseCreateAction(req))
               /\ response' = NoResponse
               /\ pc' = "received"
    /\ endpoint' = DatabasesEndpoint
    /\ dispatched' = FALSE
    /\ handler' = "none"
    /\ calls' = NoCalls
    /\ UNCHANGED <<files, databases>>
    /\ UNCHANGED procVars
    /\ UNCHANGED uploads

\* the CreateAction requests posted to the semantic endpoint directly
CreateBodies == {b \in Bodies : b.kind = "action" /\ b.action.type = "CreateAction"}

ReceiveCreate == ReceiveFrom(CreateBodies)

NextREST == createDatabaseREST \/ ReceiveCreate \/ HandleSemanticAction \/ Respond

SpecREST == Init /\ [][NextREST]_vars

----------------------------------------------------------------------------
(* Two upload requests served at the same time, each in its own goroutine, *)
(* at the granularity of their accesses to the staging directory.          *)

S3OtherBucket == <<"s", "3", ":", "/", "/", "c", "/", "k">>

S3OtherKey == <<"s", "3", ":", "/", "/", "b", "/", "j">>

\* the content locations of the concurrent requests
S3Urls == {S3Object, S3Nested, S3OtherBucket, S3OtherKey}

\* what the object store holds at a location
ObjectContent(s3URL) ==
    CASE s3URL = S3Object -> "object b/k"
      [] s3URL = S3Nested -> "object b/x/k"
      [] s3URL = S3OtherBucket -> "object c/k"
      [] OTHER -> "object b/j"

\* the gateway's answers to a download: the object written to the download
\* path, or an error status with nothing written
DownloadReplies(s3URL) ==
    {[kind |-> "json", actionStatus |-> Completed, wrote |-> TRUE,
      content |-> ObjectContent(s3URL)],
     [kind |-> "httperror", actionStatus |-> "", wrote |-> FALSE, content |-> "xml"]}

concFrame == <<pc, request, response, dispatched, handler, calls, databases>>

\* an UploadAction with an s3:// contentUrl reaches executeUploadAction
Arrive(w) ==
    /\ uploads[w].stage = "idle"
    /\ \E u \in S3Urls :
          uploads' = [uploads EXCEPT ![w] = [NoUpload EXCEPT !.stage = "received", !.url = u]]
    /\ UNCHANGED files
    /\ UNCHANGED concFrame
    /\ UNCHANGED procVars
    /\ UNCHANGED endpoint

\* downloadFromS3: on success the object is at /tmp/Base(key) and the
\* removal of that path is deferred; on failure the handler returns
Download(w) ==
    /\ uploads[w].stage = "received"
    /\ \E reply \in DownloadReplies(uploads[w].url) :
          LET dl == downloadFromS3(uploads[w].url, files, reply)
          IN  /\ files' = dl.files
              /\ uploads' = [uploads EXCEPT
                               ![w].stage = IF dl.err = NoErr THEN "staged" ELSE "failed",
                               ![w].path = dl.path]
    /\ UNCHANGED concFrame
    /\ UNCHANGED procVars
    /\ UNCHANGED endpoint

\* uploadFileToBaseX: the file at the staged path is read and sent
Upload(w) ==
    /\ uploads[w].stage = "staged"
    /\ \E ds \in {200, 500} :
          LET up == uploadFileToBaseX(BaseURL, DbName, uploads[w].path, DocId, files,
                                      databases, ds)
          IN  uploads' = [uploads EXCEPT
                            ![w].stage = "uploaded",
                            ![w].readFailed = (up.calls = NoCalls),
                            ![w].sent = IF up.calls = NoCalls THEN "" ELSE up.calls[1].body]
    /\ UNCHANGED files
    /\ UNCHANGED concFrame
    /\ UNCHANGED procVars
    /\ UNCHANGED endpoint

\* the deferred os.Remove of the staged path runs as the handler returns
Cleanup(w) ==
    /\ uploads[w].stage = "uploaded"
    /\ files' = Remove(files, uploads[w].path)
    /\ uploads' = [uploads EXCEPT ![w].stage = "done"]
    /\ UNCHANGED concFrame
    /\ UNCHANGED procVars
    /\ UNCHANGED endpoint

\* the response is written and the goroutine ends
Finish(w) ==
    /\ uploads[w].stage \in {"done", "failed"}
    /\ uploads' = [uploads EXCEPT ![w] = NoUpload]
    /\ UNCHANGED files
    /\ UNCHANGED concFrame
    /\ UNCHANGED procVars
    /\ UNCHANGED endpoint

NextConcurrent ==
    \E w \in Workers :
       \/ Arrive(w)
       \/ Download(w)
       \/ Upload(w)
       \/ Cleanup(w)
       \/ Finish(w)

SpecConcurrent == Init /\ [][NextConcurrent]_vars

----------------------------------------------------------------------------
(* Properties.                                                             *)

RecognizedTypes == {"UpdateAction", "TransformAction", "SearchAction", "CreateAction",
                    "DeleteAction", "UploadAction"}

Responded == pc = "responded"

RespondedAction == Responded /\ request.kind = "action"

\* the error description of a response: the message and the wrapped error text
ErrorDescription(resp) == <<resp.message, resp.err.text>>

DescriptionEmpty(resp) == ErrorDescription(resp) = <<"", "">>

\* C1: every response to an action with a recognized @type is an action
\* document whose actionStatus is CompletedActionStatus or FailedActionStatus,
\* whichever path the handler took.
C1_ExactlyOneStatus ==
    (RespondedAction /\ request.action.type \in RecognizedTypes)
        => /\ response.kind = "action"
           /\ response.actionStatus \in {Completed, Failed}

\* a recognized action failed downstream after its handler issued a call
C1_Witness ==
    /\ RespondedAction
    /\ request.action.type = "SearchAction"
    /\ Len(calls) = 1
    /\ response.actionStatus = Failed

\* C2: a response with FailedActionStatus carries a non-empty error
\* description, also when the handler reports the failure without an error value.
C2_FailedHasDescription ==
    (Responded /\ response.actionStatus = Failed) => ~DescriptionEmpty(response)

\* a failure reported with no underlying error value
C2_Witness ==
    /\ Responded
    /\ response.actionStatus = Failed
    /\ response.err = NoErr
    /\ handler = "createDatabase"

\* C3: once a handler was selected every outcome is HTTP 200, a failure being
\* reported as FailedActionStatus; HTTP 4xx/5xx answers only requests that
\* reached no handler.
C3_HandledFailureIs200 ==
    Responded =>
        /\ handler # "none" => response.code = 200
        /\ (handler # "none" /\ response.actionStatus # Completed)
              => (response.kind = "action" /\ response.actionStatus = Failed)
        /\ response.code >= 400 => handler = "none"

\* the upload handler failed on a missing contentUrl and answered 200
C3_Witness ==
    /\ Responded
    /\ handler = "upload"
    /\ response.message = "Document contentUrl is required"
    /\ response.code = 200
    /\ response.actionStatus = Failed

\* C4: an unreadable body, a body that is no JSON object and a body without a
\* string @type are answered with HTTP 400 before dispatch: no handler runs and
\* no outbound call is issued.
C4_MalformedRejected ==
    (Responded /\ request.kind # "action")
        => /\ response.code = 400
           /\ ~dispatched
           /\ handler = "none"
           /\ calls = NoCalls

\* a body whose @type is not a string was answered
C4_Witness ==
    /\ Responded
    /\ request.kind = "nonstringtype"
    /\ response.code = 400

\* C5: an action whose @type is not in the dispatch table is answered with
\* HTTP 400 and an unsupported-type error carrying the type; no handler runs,
\* no call is made and the response is not a completed action.
C5_DispatchTotal ==
    (RespondedAction /\ request.action.type \notin RecognizedTypes)
        => /\ response.code = 400
           /\ response.kind = "httperror"
           /\ response.message = "Unsupported action type"
           /\ response.detail = request.action.type
           /\ handler = "none"
           /\ calls = NoCalls
           /\ response.actionStatus # Completed

\* the InvalidAction request was dispatched and answered
C5_Witness ==
    /\ RespondedAction
    /\ request.action.type = "InvalidAction"
    /\ dispatched
    /\ response.code = 400

\* C6 as stated: a CreateAction goes to the upload handler whenever its object
\* is present and to the create-database handler exactly when it is absent.
C6_Original ==
    (RespondedAction /\ request.action.type = "CreateAction")
        => /\ request.action.object.present => handler = "upload"
           /\ handler = "createDatabase" <=> ~request.action.object.present

\* C6 amended: a CreateAction goes to the upload handler exactly when its
\* object is present with @type DigitalDocument, and to the create-database
\* handler in every other case.
C6_CreateRouting ==
    (RespondedAction /\ request.action.type = "CreateAction")
        => LET o == request.action.object
           IN  /\ handler = "upload" <=> (o.present /\ o.type = "DigitalDocument")
               /\ handler = "createDatabase" <=> ~(o.present /\ o.type = "DigitalDocument")

\* a CreateAction carrying a Dataset object was handled by the create-database handler
C6_Witness ==
    /\ RespondedAction
    /\ request.action.type = "CreateAction"
    /\ request.action.object.present
    /\ request.action.object.type = "Dataset"
    /\ handler = "createDatabase"

DocumentKinds == {"DigitalDocument"}

\* C7: a DeleteAction goes to the delete-document handler when its object's
\* type is a document kind and to the delete-database handler in every other
\* case; exactly one of the two handles it.
C7_DeleteRouting ==
    (RespondedAction /\ request.action.type = "DeleteAction")
        => LET o == request.action.object
               isDoc == o.present /\ o.type \in DocumentKinds
           IN  /\ handler \in {"deleteDocument", "deleteDatabase"}
               /\ isDoc => handler = "deleteDocument"
               /\ ~isDoc => handler = "deleteDatabase"

\* a DeleteAction with a Database object and one with a document object were routed
C7_Witness ==
    /\ RespondedAction
    /\ request.action.type = "DeleteAction"
    /\ request.action.object.present
    /\ request.action.object.type = "Database"
    /\ handler = "deleteDatabase"
    /\ Len(calls) = 1

AllAccepted == \A i \in 1..Len(calls) : Accepted(calls[i].status)

ValidTarget(action) == action.target.present /\ action.target.url # EmptyStr

\* the stylesheet location names a readable file
ValidInstrument(action) ==
    /\ action.instrument.present
    /\ LET path == IF action.instrument.contentUrl = EmptyStr
                   THEN action.instrument.codeRepository
                   ELSE action.instrument.contentUrl
       IN  path \in DOMAIN files

\* the document's content location names a readable local file
ValidDocument(action) ==
    /\ action.object.present
    /\ ~HasPrefix(action.object.contentUrl, S3Scheme)
    /\ action.object.contentUrl \in DOMAIN files

\* C8: UpdateAction and TransformAction go to the transform handler,
\* SearchAction to the query handler and UploadAction to the upload handler;
\* an UpdateAction and an UploadAction with a valid instrument/object and
\* target complete when the downstream accepts the call.
C8_TypeRouting ==
    RespondedAction =>
        LET a == request.action
        IN  /\ a.type \in {"UpdateAction", "TransformAction"} => handler = "transform"
            /\ a.type = "SearchAction" => handler = "query"
            /\ a.type = "UploadAction" => handler = "upload"
            /\ (a.type = "UpdateAction" /\ ValidInstrument(a) /\ ValidTarget(a) /\ AllAccepted)
                  => (response.actionStatus = Completed /\ Len(calls) = 1)
            /\ (a.type = "UploadAction" /\ ValidDocument(a) /\ ValidTarget(a) /\ AllAccepted)
                  => (response.actionStatus = Completed /\ Len(calls) = 1)

\* an UploadAction with a Dataset object was uploaded and completed
C8_Witness ==
    /\ RespondedAction
    /\ request.action.type = "UploadAction"
    /\ request.action.object.type = "Dataset"
    /\ handler = "upload"
    /\ Len(calls) = 1
    /\ response.actionStatus = Completed

\* C9: a DeleteAction with no object, no target and no result is answered
\* with CompletedActionStatus.
C9_BareDeleteCompletes ==
    (RespondedAction /\ request.action.type = "DeleteAction"
        /\ ~request.action.object.present /\ ~request.action.target.present
        /\ request.action.result.kind = "absent")
        => response.actionStatus = Completed

\* C10: after the upload handler has returned for an s3:// content location,
\* the staged temporary file does not exist, on every exit path.
C10_StagedFileRemoved ==
    (RespondedAction /\ handler = "upload"
        /\ HasPrefix(request.action.object.contentUrl, S3Scheme))
        => DownloadPath(request.action.object.contentUrl) \notin DOMAIN files

\* the calls of the current request to the object-store gateway / the database
S3Calls == SelectSeq(calls, LAMBDA c : c.svc = "s3")

DatabaseCalls == SelectSeq(calls, LAMBDA c : c.svc = "basex")

\* the upload handler got as far as looking at the content location
UploadReachedContent ==
    /\ RespondedAction
    /\ handler = "upload"
    /\ ValidTarget(request.action)
    /\ request.action.object.present
    /\ request.action.object.contentUrl # EmptyStr

\* every retrieval call precedes every database call
RetrievalFirst ==
    \A i, j \in 1..Len(calls) :
        (calls[i].svc = "s3" /\ calls[j].svc = "basex") => i < j

\* s3://bucket/key: a '/' follows the bucket
HasBucketAndKey(url) ==
    /\ HasPrefix(url, S3Scheme)
    /\ \E i \in (Len(S3Scheme) + 1)..Len(url) : url[i] = "/"

\* C11 as stated: every content location starting with s3:// triggers exactly
\* one retrieval call, before the single upload call; any other location
\* triggers none; a failed retrieval is followed by no upload call.
C11_Original ==
    UploadReachedContent =>
        LET url == request.action.object.contentUrl
        IN  /\ HasPrefix(url, S3Scheme) => Len(S3Calls) = 1
            /\ ~HasPrefix(url, S3Scheme) => Len(S3Calls) = 0
            /\ Len(DatabaseCalls) <= 1
            /\ RetrievalFirst
            /\ response.message = "Failed to download from S3" => Len(DatabaseCalls) = 0

\* C11 amended: a content location s3://bucket/key triggers exactly one
\* retrieval call, before the at most one upload call; an s3:// location with
\* no key is rejected with no retrieval and no upload call; any other location
\* triggers no retrieval call; a failed retrieval is followed by no upload call.
C11_RetrievalBeforeUpload ==
    UploadReachedContent =>
        LET url == request.action.object.contentUrl
        IN  /\ HasBucketAndKey(url) => Len(S3Calls) = 1
            /\ (HasPrefix(url, S3Scheme) /\ ~HasBucketAndKey(url))
                  => /\ calls = NoCalls
                     /\ response.actionStatus = Failed
                     /\ response.message = "Failed to download from S3"
            /\ ~HasPrefix(url, S3Scheme) => Len(S3Calls) = 0
            /\ Len(DatabaseCalls) <= 1
            /\ RetrievalFirst
            /\ response.message = "Failed to download from S3" => Len(DatabaseCalls) = 0

\* an s3:// object was retrieved and then uploaded
C11_Witness ==
    /\ UploadReachedContent
    /\ request.action.object.contentUrl = S3Object
    /\ Len(calls) = 2
    /\ calls[1].svc = "s3"
    /\ calls[2].svc = "basex"
    /\ response.actionStatus = Completed

\* C12: a retrieval whose reply does not carry actionStatus =
\* CompletedActionStatus (another status, or the status missing or not a
\* string) is a failure: the upload handler answers FailedActionStatus and
\* issues no upload call.
C12_OnlyCompletedSucceeds ==
    (RespondedAction /\ handler = "upload" /\ Len(S3Calls) = 1
        /\ S3Calls[1].actionStatus # Completed)
        => /\ response.actionStatus = Failed
           /\ Len(DatabaseCalls) = 0

\* the downstream answered the call with no response or with an error status
Rejected(call) == call.status = 0 \/ call.status >= 400

\* C13: when a database call of the handler ended in a transport error or a
\* status >= 400, the response is FailedActionStatus, never Completed, and
\* its error carries the downstream status and body when there was a response;
\* this covers a CreateAction for a database that exists already.
C13_DownstreamFailureSurfaced ==
    Responded =>
        \A i \in 1..Len(calls) :
            (calls[i].svc = "basex" /\ Rejected(calls[i]))
                => /\ response.kind = "action"
                   /\ response.actionStatus = Failed
                   /\ response.err # NoErr
                   /\ ~DescriptionEmpty(response)
                   /\ calls[i].status >= 400
                         => /\ response.err.status = calls[i].status
                            /\ response.err.body = ResponseBody(calls[i].status)

\* a CreateAction for a database that exists downstream was rejected there
C13_Witness ==
    /\ RespondedAction
    /\ request.action.type = "CreateAction"
    /\ handler = "createDatabase"
    /\ request.action.result.identifier = DbName
    /\ DbName \in databases
    /\ Len(calls) = 1
    /\ calls[1].status = 400
    /\ response.actionStatus = Failed
    /\ response.err.body = "bad request"

\* the message a handler reports when its database call failed
DownstreamFailureMessage ==
    [h \in {"transform", "query", "upload", "createDatabase", "deleteDatabase",
            "deleteDocument"} |->
        CASE h = "transform" -> "Failed to upload XSLT"
          [] h = "query" -> "Failed to execute query"
          [] h = "upload" -> "Failed to upload file"
          [] h = "createDatabase" -> "Failed to create database"
          [] h = "deleteDatabase" -> "Failed to delete database"
          [] h = "deleteDocument" -> "Failed to delete document"]

\* C14 as stated: every database response outside 200..299, 3xx included, is
\* an error like a transport failure, and the handler does not report Completed.
C14_Original ==
    Responded =>
        \A i \in 1..Len(calls) :
            (calls[i].svc = "basex" /\ ~Accepted(calls[i].status))
                => /\ response.err # NoErr
                   /\ response.actionStatus # Completed

\* C14 amended: a database response with status >= 400 is surfaced as the same
\* error kind as a transport failure and the handler reports Failed; a
\* response with any status below 400, 3xx included, is taken as success.
C14_ErrorStatuses ==
    Responded =>
        \A i \in 1..Len(calls) :
            calls[i].svc = "basex"
                => /\ Rejected(calls[i])
                         => /\ response.err # NoErr
                            /\ response.message = DownstreamFailureMessage[handler]
                            /\ response.actionStatus = Failed
                   /\ ~Rejected(calls[i])
                         => /\ response.err = NoErr
                            /\ response.actionStatus = Completed

\* a 3xx answer of the database was taken as success
C14_Witness ==
    /\ RespondedAction
    /\ handler = "query"
    /\ Len(calls) = 1
    /\ calls[1].status = 302
    /\ response.actionStatus = Completed

\* C15: a request produces at most one database call and, for an s3:// upload
\* only, at most one retrieval call; no call follows a call that failed.
C15_SingleAttempt ==
    Responded =>
        /\ Len(DatabaseCalls) <= 1
        /\ Len(S3Calls) <= 1
        /\ Len(S3Calls) = 1
              => /\ handler = "upload"
                 /\ HasPrefix(request.action.object.contentUrl, S3Scheme)
        /\ \A i \in 1..Len(calls) : Rejected(calls[i]) => i = Len(calls)

\* a delete-database call failed at transport level and was not repeated
C15_Witness ==
    /\ RespondedAction
    /\ handler = "deleteDatabase"
    /\ Len(calls) = 1
    /\ calls[1].status = 0
    /\ response.actionStatus = Failed

\* the database a create or delete-database request names: the Database
\* object with an identifier (delete only), else the result map
NamedDatabase(action, h) ==
    IF h = "deleteDatabase" /\ action.object.present /\ action.object.type = "Database"
          /\ action.object.identifier # EmptyStr
    THEN [present |-> TRUE, url |-> action.object.url]
    ELSE [present |-> action.result.kind = "map", url |-> action.result.url]

\* a sub-document the handler needs is absent
SubDocumentMissing(action, h) ==
    CASE h = "query" -> ~action.target.present
      [] h = "transform" -> ~action.instrument.present \/ ~action.target.present
      [] h \in {"upload", "deleteDocument"} -> ~action.object.present \/ ~action.target.present
      [] h \in {"createDatabase", "deleteDatabase"} -> ~NamedDatabase(action, h).present
      [] OTHER -> FALSE

\* a field the handler needs is empty
FieldMissing(action, h) ==
    CASE h = "query" -> action.query = EmptyStr
      [] h = "transform" -> /\ action.instrument.contentUrl = EmptyStr
                            /\ action.instrument.codeRepository = EmptyStr
      [] h = "upload" -> action.object.contentUrl = EmptyStr
      [] h = "deleteDocument" -> /\ action.object.identifier = EmptyStr
                                 /\ action.object.contentUrl = EmptyStr
      [] OTHER -> FALSE

\* the database is named but its credentials cannot be resolved
CredentialsMissing(action, h) ==
    IF h \in {"createDatabase", "deleteDatabase"}
    THEN NamedDatabase(action, h).present /\ NamedDatabase(action, h).url = EmptyStr
    ELSE action.target.present /\ action.target.url = EmptyStr

ExtractMessages ==
    {"Failed to extract XSLT stylesheet", "Failed to extract XML database",
     "Failed to extract database", "Failed to extract XML document",
     "Failed to parse database", "Database result is required",
     "Database object or result is required"}

FieldMessages ==
    {"Query is required", "XSLT stylesheet path required",
     "Document contentUrl is required", "Document identifier or contentUrl is required"}

ResolveMessages == {"Failed to extract database credentials"}

StoredName == [p \in {LocalFile, StylesheetFile} |->
                 IF p = LocalFile THEN <<"a">> ELSE <<"s">>]

\* the transform handler got as far as choosing the stylesheet location
TransformReachedPath ==
    /\ RespondedAction
    /\ handler = "transform"
    /\ request.action.instrument.present
    /\ ValidTarget(request.action)

\* C17: the transform handler takes the instrument's contentUrl when it is
\* non-empty and its codeRepository otherwise; with both empty it answers
\* Failed and makes no call; the stylesheet is uploaded from the chosen
\* location and from no other, also when the chosen one cannot be read.
C17_StylesheetFallback ==
    TransformReachedPath =>
        LET i == request.action.instrument
            chosen == IF i.contentUrl # EmptyStr THEN i.contentUrl ELSE i.codeRepository
        IN  /\ chosen = EmptyStr
                  => /\ response.actionStatus = Failed
                     /\ response.message = "XSLT stylesheet path required"
                     /\ calls = NoCalls
            /\ (chosen # EmptyStr /\ chosen \in DOMAIN files)
                  => /\ Len(calls) = 1
                     /\ calls[1].resource = StoredName[chosen]
                     /\ calls[1].body = files[chosen]
            /\ (chosen # EmptyStr /\ chosen \notin DOMAIN files)
                  => /\ calls = NoCalls
                     /\ response.actionStatus = Failed
                     /\ response.message = "Failed to upload XSLT"

\* the stylesheet was taken from the source repository location
C17_Witness ==
    /\ TransformReachedPath
    /\ request.action.instrument.contentUrl = EmptyStr
    /\ request.action.instrument.codeRepository = StylesheetFile
    /\ Len(calls) = 1
    /\ calls[1].resource = <<"s">>
    /\ calls[1].body = "xslt"
    /\ response.actionStatus = Completed

\* C18: the only call the transform handler can issue is one resource upload,
\* PUT {base}/rest/{db}/{filename}, to the target database; it issues no query
\* or transformation call, reports Completed once that upload is answered
\* without error, and attaches no transformation output.
C18_TransformOnlyStages ==
    (RespondedAction /\ handler = "transform") =>
        /\ Len(calls) <= 1
        /\ \A i \in 1..Len(calls) :
              /\ calls[i].svc = "basex"
              /\ calls[i].method = "PUT"
              /\ calls[i].hasResource
              /\ calls[i].base = request.action.target.url
              /\ calls[i].db = request.action.target.identifier
        /\ (Len(calls) = 1 /\ ~Rejected(calls[1])) => response.actionStatus = Completed
        /\ response.actionStatus = Completed => (Len(calls) = 1 /\ response.output = "")

\* a TransformAction completed after the single staging upload
C18_Witness ==
    /\ RespondedAction
    /\ request.action.type = "TransformAction"
    /\ handler = "transform"
    /\ request.action.instrument.contentUrl = LocalFile
    /\ Len(calls) = 1
    /\ calls[1].method = "PUT"
    /\ calls[1].resource = <<"a">>
    /\ response.actionStatus = Completed

\* a CreateAction handled as a database creation was answered
CreateDatabaseResponded ==
    /\ RespondedAction
    /\ request.action.type = "CreateAction"
    /\ handler = "createDatabase"

IsCreateCallFor(call, result) ==
    /\ call.svc = "basex"
    /\ call.method = "PUT"
    /\ ~call.hasResource
    /\ call.base = result.url
    /\ call.db = result.identifier

C20_InputsUnchanged ==
    (RespondedAction /\ handler # "none")
        => /\ response.kind = "action"
           /\ response.echo = <<request.action>>
           /\ response.detail = request.action.type
           /\ response.echo[1].identifier = request.action.identifier

\* an upload from the object store failed downstream and echoed its inputs
C20_Witness ==
    /\ RespondedAction
    /\ handler = "upload"
    /\ request.action.object.contentUrl = S3Nested
    /\ Len(calls) = 2
    /\ calls[2].status = 500
    /\ response.actionStatus = Failed
    /\ response.echo[1].object.contentUrl = S3Nested

\* the content of the file the upload handler read: the local file's, or
\* what the gateway staged for this request
SourceContent ==
    IF Len(S3Calls) = 1 THEN S3Calls[1].delivered
    ELSE files[request.action.object.contentUrl]

\* the payload for each kind of content
ExpectedPayload ==
    [c \in StagedContents |-> IF c = "json-result-string" THEN "result-string" ELSE c]

\* the upload handler read a file it was given and went on to the upload
UploadReadFile ==
    /\ UploadReachedContent
    /\ \/ Len(S3Calls) = 1 /\ S3Calls[1].wrote
             /\ response.message # "Failed to download from S3"
       \/ Len(S3Calls) = 0 /\ request.action.object.contentUrl \in DOMAIN files

\* C21: the upload sends exactly one PUT whose payload is the string value of
\* the result key when the file is a JSON object with such a key, and the
\* file's bytes unchanged when it is no JSON, no JSON object, has no result
\* key or a result that is no string.
C21_PayloadChoice ==
    UploadReadFile =>
        /\ Len(DatabaseCalls) = 1
        /\ DatabaseCalls[1].method = "PUT"
        /\ DatabaseCalls[1].body = ExpectedPayload[SourceContent]

\* a staged JSON object whose result is a number was uploaded unchanged
C21_Witness ==
    /\ UploadReadFile
    /\ Len(S3Calls) = 1
    /\ S3Calls[1].delivered = "json-result-number"
    /\ Len(DatabaseCalls) = 1
    /\ DatabaseCalls[1].body = "json-result-number"
    /\ response.actionStatus = Completed

\* a retrieval was made with settings other than those of the start environment
RetrievedAfterChange ==
    /\ pc = "responded"
    /\ \E i \in DOMAIN calls : calls[i].svc = "s3" /\ calls[i].settings # StartupSettings

\* C22 as stated: the API key and the object-store gateway URL, endpoint,
\* region and credentials used while serving any request equal the values the
\* environment had at startup, even if the environment changes afterwards.
C22_Original ==
    /\ phase # "boot" => apiKey = startEnviron["BASEX_API_KEY"]
    /\ \A i \in DOMAIN calls : calls[i].svc = "s3" => calls[i].settings = StartupSettings

\* C22, amended: only the API key is fixed at startup (it is never reassigned
\* once main() has read it); every retrieval from the object store takes the
\* gateway URL, endpoint, region and credentials from the environment as it
\* is when the retrieval is made, with the defaults for the empty values.
C22_ReadPerRetrieval ==
    [][/\ phase # "boot" => apiKey' = apiKey
       /\ (pc = "received" /\ pc' = "responded") =>
              \A i \in DOMAIN calls' :
                 calls'[i].svc = "s3" => calls'[i].settings = GatewaySettings]_vars

\* a retrieval used changed settings while the API key is still the startup one
C22_Witness ==
    /\ RetrievedAfterChange
    /\ apiKey = startEnviron["BASEX_API_KEY"]
    /\ environ["BASEX_API_KEY"] # apiKey

\* C23: a staged temporary file is scoped to a single request: of two
\* concurrent uploads with s3:// content locations, neither sends content
\* that was staged for the other, and neither finds its staged file removed
\* by the other's cleanup before it has read it.
C23_StagingScopedToRequest ==
    \A w \in Workers :
       uploads[w].stage \in {"uploaded", "done"} =>
          /\ ~uploads[w].readFailed
          /\ uploads[w].sent = Payload(ObjectContent(uploads[w].url))

\* a database request with a name and a base URL was forwarded and answered
DatabaseRequestAnswered ==
    /\ Responded
    /\ endpoint = DatabasesEndpoint
    /\ request.kind = "action"
    /\ request.action.object.url # EmptyStr

\* C24: a POST /v1/api/databases request with a non-empty name N and a base
\* URL reaches the create-database handler with the database description it
\* needs: exactly one create call for N is issued, and when the downstream
\* accepts it the response is CompletedActionStatus, as for the equivalent
\* CreateAction posted to the semantic endpoint.
C24_RestCreateReachesHandler ==
    DatabaseRequestAnswered =>
       /\ handler = "createDatabase"
       /\ Len(calls) = 1
       /\ calls[1].svc = "basex" /\ calls[1].method = "PUT" /\ ~calls[1].hasResource
       /\ calls[1].db = request.action.object.identifier
       /\ calls[1].status \in 200..299 => response.actionStatus = Completed

\* the target path the upload handler is to use for the request
ExpectedTargetPath ==
    IF request.action.targetUrl # EmptyStr THEN request.action.targetUrl
    ELSE request.action.object.identifier

\* C25: every PUT of the upload handler addresses the action's targetUrl when
\* that is non-empty and the document's identifier otherwise; the contentUrl
\* and the staged temporary path are read from and are never the target path.
C25_UploadTargetPath ==
    (RespondedAction /\ handler = "upload") =>
       \A i \in DOMAIN DatabaseCalls :
          /\ DatabaseCalls[i].method = "PUT"
          /\ DatabaseCalls[i].hasResource
          /\ DatabaseCalls[i].resource = ExpectedTargetPath
          /\ DatabaseCalls[i].resource # request.action.object.contentUrl
          /\ \A j \in DOMAIN S3Calls : DatabaseCalls[i].resource # S3Calls[j].resource

\* a staged document with both an identifier and a targetUrl went to the
\* targetUrl
C25_Witness ==
    /\ UploadReadFile
    /\ request.action.targetUrl = TargetUrlValue
    /\ request.action.object.identifier = DocId
    /\ Len(S3Calls) = 1
    /\ Len(DatabaseCalls) = 1
    /\ DatabaseCalls[1].resource = TargetUrlValue
    /\ response.actionStatus = Completed

\* the delete-database handler answered
DeleteDatabaseResponded == RespondedAction /\ handler = "deleteDatabase"

\* the action's object is a Database with an identifier
ObjectNamesDatabase ==
    /\ request.action.object.present
    /\ request.action.object.type = "Database"
    /\ request.action.object.identifier # EmptyStr

\* the action's result is a database description
ResultNamesDatabase == request.action.result.kind = "map"

\* the database the handler is to delete: the object's when the object names
\* one, else the result's
ResolvedDatabase ==
    IF ObjectNamesDatabase
    THEN [identifier |-> request.action.object.identifier, url |-> request.action.object.url]
    ELSE [identifier |-> request.action.result.identifier, url |-> request.action.result.url]

\* exactly one DELETE {base}/rest/{identifier} for the resolved database
OneDeleteForResolved ==
    /\ Len(calls) = 1
    /\ calls[1].svc = "basex"
    /\ calls[1].method = "DELETE"
    /\ ~calls[1].hasResource
    /\ calls[1].db = ResolvedDatabase.identifier
    /\ calls[1].base = ResolvedDatabase.url

FailedWithout(message) ==
    /\ response.actionStatus = Failed
    /\ response.message = message
    /\ calls = NoCalls

DeleteDocumentResponded == RespondedAction /\ handler = "deleteDocument"

\* the resource path the delete-document handler is to use
ExpectedDocumentPath ==
    IF request.action.object.identifier # EmptyStr THEN request.action.object.identifier
    ELSE request.action.object.contentUrl

\* C27: every DELETE of the delete-document handler addresses the resource
\* whose path is the document's identifier when non-empty, else its
\* contentUrl; when both are empty the answer is Failed and no DELETE is
\* issued; no DELETE of the handler addresses the database itself.
C27_DeleteDocumentPath ==
    DeleteDocumentResponded =>
       /\ Len(calls) <= 1
       /\ \A i \in DOMAIN calls :
             /\ calls[i].svc = "basex"
             /\ calls[i].method = "DELETE"
             /\ calls[i].hasResource
             /\ calls[i].resource = ExpectedDocumentPath
             /\ calls[i].resource # EmptyStr
       /\ ExpectedDocumentPath = EmptyStr =>
             /\ response.actionStatus = Failed
             /\ calls = NoCalls

\* a document without identifier was deleted under its contentUrl
C27_Witness ==
    /\ DeleteDocumentResponded
    /\ request.action.object.identifier = EmptyStr
    /\ request.action.object.contentUrl = LocalFile
    /\ Len(calls) = 1
    /\ calls[1].method = "DELETE"
    /\ calls[1].resource = LocalFile
    /\ response.actionStatus = Completed

\* the position of the first event of a set in the lifecycle, 0 when none
FirstOf(es) ==
    IF \E i \in DOMAIN events : events[i] \in es
    THEN CHOOSE i \in DOMAIN events :
            /\ events[i] \in es
            /\ \A j \in DOMAIN events : events[j] \in es => i <= j
    ELSE 0

RegisterAttempts == {"register", "register-failed"}

ListenAttempts == {"listen", "listen-failed"}

UnregisterAttempts == {"unregister", "unregister-failed"}

\* C28: registration is attempted before the server starts listening; after
\* a registration attempt, failed or not, the server can be started; the
\* server is closed only after a termination signal, and only after the
\* attempt to unregister that follows the signal.
C28_LifecycleOrder ==
    /\ FirstOf(ListenAttempts) # 0 =>
          /\ FirstOf(RegisterAttempts) # 0
          /\ FirstOf(RegisterAttempts) < FirstOf(ListenAttempts)
    /\ phase = "registered" => ENABLED StartServer
    /\ (server = "closed" \/ FirstOf({"close"}) # 0) =>
          /\ FirstOf({"signal"}) # 0
          /\ FirstOf({"signal"}) < FirstOf(UnregisterAttempts)
          /\ FirstOf(UnregisterAttempts) < FirstOf({"close"})

\* the registration failed, the server listened all the same, and after the
\* signal it was closed following the unregistration
C28_Witness ==
    /\ server = "closed"
    /\ phase = "stopped"
    /\ events = <<"configure", "register-failed", "listen", "signal", "unregister", "close">>

\* C30: no handler issues a resource-level request with an empty resource
\* path: an upload without targetUrl and identifier, and a transform whose
\* stylesheet path has nothing after its last '/', fail before a PUT
\* addressed to {base}/rest/{db}/ is sent.
C30_NoEmptyResourcePath ==
    \A i \in DOMAIN calls :
       (calls[i].svc = "basex" /\ calls[i].hasResource) => calls[i].resource # EmptyStr

============================================================================
